---- MODULE Spec2Model ----
(***************************************************************************)
(* Model of the configuration-programming and black-box paths of the      *)
(* Renesas digital multiphase driver, drivers/hwmon/pmbus/isl68137.c:     *)
(* raa_dmpvr2_parse_cfg, raa_dmpvr2_verify_device, raa_dmpvr2_check_cfg,  *)
(* raa_dmpvr2_send_cfg, raa_dmpvr2_cfg_write_result, raa_dmpvr2_write_cfg *)
(* and raa_dmpvr2_read_black_box, with the three i2c_transfer helpers.    *)
(*                                                                         *)
(* Every bus transaction is one action.  A transaction's outcome is the   *)
(* value i2c_transfer / i2c_smbus_write_word_data may return: the number  *)
(* of messages executed (possibly fewer than asked for) or a negative     *)
(* errno.  A buffer the code never initialises holds an arbitrary value.  *)
(*                                                                         *)
(* Left out: a failing kmalloc (-ENOMEM), and the missing terminator of   *)
(* the copied text (the text is taken to end where the caller's bytes     *)
(* end).                                                                   *)
(***************************************************************************)
EXTENDS Integers, Sequences, FiniteSets, TLC

(***************************************************************************)
(* Program constants (isl68137.c:24-38) and the errno values returned.    *)
(***************************************************************************)
RAA_DMPVR2_DMA_FIX == 197
RAA_DMPVR2_DMA_SEQ == 198
RAA_DMPVR2_DMA_ADDR == 199
RAA_DMPVR2_BB_BASE_ADDR == 61312
RAA_DMPVR2_BB_WSIZE == 4
RAA_DMPVR2_BB_WCNT == 32
RAA_DMPVR2_BB_BUF_SIZE == 288
RAA_DMPVR2_NVM_CNT_ADDR == 194
RAA_DMPVR2_PRGM_STATUS_ADDR == 1799
RAA_DMPVR2_BANK0_STATUS_ADDR == 1801
RAA_DMPVR2_BANK1_STATUS_ADDR == 1802
RAA_DMPVR2_CFG_MAX_SLOT == 16
RAA_DMPVR2_CFG_HEAD_LEN == 290
RAA_DMPVR2_CFG_SLOT_LEN == 358
PMBUS_IC_DEVICE_ID == 173
PMBUS_IC_DEVICE_REV == 174
EIO == 5
ENXIO == 6
EINVAL == 22
ETIME == 62

(***************************************************************************)
(* Bounds of the model.                                                    *)
(*   HZ        jiffies per second (the kernel's CONFIG_HZ, scaled down);   *)
(*             the poll budget is HZ + HZ jiffies.                         *)
(*   MaxFaults how many bus transactions of one behaviour may fail.        *)
(*   MaxPolls  the count of status polls of a run saturates here (any      *)
(*             number of polls fits into one jiffy).                       *)
(*   MaxSwitches how often one caller's bus transaction may come between   *)
(*             two transactions of another caller's running operation.     *)
(***************************************************************************)
HZ == 1
MaxFaults == 1
MaxPolls == 2
MaxSwitches == 2

(***************************************************************************)
(* Characters are one-character strings; "NUL" is the terminator strsep   *)
(* writes over a line's newline.                                           *)
(***************************************************************************)
HexDigits == <<"0","1","2","3","4","5","6","7","8","9","A","B","C","D","E","F">>

IsHex(c) == \E n \in 1..16 : HexDigits[n] = c

HexVal(c) == (CHOOSE n \in 1..16 : HexDigits[n] = c) - 1

\* The two characters printf("%02X") renders a byte as.
HexPair(b) == <<HexDigits[(b \div 16) + 1], HexDigits[(b % 16) + 1]>>

(***************************************************************************)
(* raa_dmpvr2_hextou8: kstrtou8 of the two characters at buf, base 16.    *)
(* kstrtou8 skips one leading '+', takes the hex digits that follow,      *)
(* allows one trailing newline and then requires the end of the string;   *)
(* no digit at all is -EINVAL.  The result is [ret, val].                  *)
(***************************************************************************)
kstrtou8(s) ==
  LET t  == IF Len(s) > 0 /\ s[1] = "+" THEN Tail(s) ELSE s
      u  == IF Len(t) >= 2 /\ t[1] = "0" /\ t[2] \in {"x", "X"}
            THEN SubSeq(t, 3, Len(t)) ELSE t
      nd == IF Len(u) >= 1 /\ IsHex(u[1])
            THEN (IF Len(u) >= 2 /\ IsHex(u[2]) THEN 2 ELSE 1)
            ELSE 0
      r  == SubSeq(u, nd + 1, Len(u))
      r2 == IF Len(r) > 0 /\ r[1] = "\n" THEN Tail(r) ELSE r
      v  == IF nd = 2 THEN 16 * HexVal(u[1]) + HexVal(u[2])
            ELSE IF nd = 1 THEN HexVal(u[1]) ELSE 0
  IN IF nd = 0 \/ Len(r2) > 0
     THEN [ret |-> -EINVAL, val |-> 0]
     ELSE [ret |-> 0, val |-> v]

raa_dmpvr2_hextou8(c1, c2) ==
  kstrtou8(IF c1 = "NUL" THEN <<>> ELSE IF c2 = "NUL" THEN <<c1>> ELSE <<c1, c2>>)

(***************************************************************************)
(* The text handed to raa_dmpvr2_parse_cfg.  A text is a sequence of      *)
(* lines separated by "\n" (a text ending in "\n" has an empty last       *)
(* line).  An input record describes one text: the two header lines, a    *)
(* run of npad sentinel ("49") lines, and the lines of its body.          *)
(***************************************************************************)
Min(a, b) == IF a < b THEN a ELSE b

\* The characters of a byte sequence written as hex pairs.
HexText(bytes) ==
  [i \in 1..(2 * Len(bytes)) |-> HexPair(bytes[(i + 1) \div 2])[((i - 1) % 2) + 1]]

\* A header line: record type 49, six more characters, then four hex pairs
\* at column 8.  The pairs are stored in reverse order by the parser.
HdrLine(b3, b2, b1, b0) ==
  <<"4","9","0","8","0","0","A","D">> \o HexText(<<b3, b2, b1, b0>>)

PadLine == <<"4","9","0","0","0","0","0","0","0","0","0","0">>

\* A command line: record type 00, declared length (payload length + 3) at
\* column 2, the register at column 6, the payload pairs at column 8 and a
\* closing check byte.
CmdLine(declared, reg, payload) ==
  <<"0","0">> \o HexPair(declared) \o <<"C","0">> \o HexPair(reg)
    \o HexText(payload) \o <<"5","A">>

NLines(inp) == 2 + inp.npad + Len(inp.body) + (IF inp.trail THEN 1 ELSE 0)

Line(inp, k) ==
  IF k = 1 THEN inp.idline
  ELSE IF k = 2 THEN inp.revline
  ELSE IF k <= 2 + inp.npad THEN PadLine
  ELSE IF k <= 2 + inp.npad + Len(inp.body) THEN inp.body[k - 2 - inp.npad]
  ELSE <<>>

(***************************************************************************)
(* The first pass (isl68137.c:345-351) walks the characters of the text.  *)
(* The newline at index i that precedes line k (k >= 2) is followed by    *)
(* the characters After(inp, k); it is counted when i < strlen(buf) - 2,  *)
(* that is when at least two characters follow it, and the line counts as *)
(* a command when those two are not "49".                                  *)
(***************************************************************************)
After(inp, k) ==
  LET n == NLines(inp)
      a == Line(inp, k)
      b == IF k < n THEN <<"\n">> \o Line(inp, k + 1) ELSE <<>>
      c == IF k + 1 < n THEN <<"\n">> \o Line(inp, k + 2) ELSE <<>>
      t == a \o b \o c
  IN SubSeq(t, 1, Min(2, Len(t)))

Counted(inp) == {k \in 2..NLines(inp) : Len(After(inp, k)) = 2}

PreScan(inp) ==
  [lcnt |-> 1 + Cardinality(Counted(inp)),
   ccnt |-> Cardinality({k \in Counted(inp) :
                           After(inp, k)[1] # "4" \/ After(inp, k)[2] # "9"})]

\* C integer division truncates toward zero.
CDiv(a, b) == IF a >= 0 THEN a \div b ELSE -((-a) \div b)

SlotCnt(lcnt) == CDiv(lcnt - RAA_DMPVR2_CFG_HEAD_LEN, RAA_DMPVR2_CFG_SLOT_LEN)

\* A range test that lets a slot count below 1 through.
SlotCntAtMost(slot_cnt) == slot_cnt <= RAA_DMPVR2_CFG_MAX_SLOT

SlotCntOk(slot_cnt) == ~(slot_cnt < 1 \/ slot_cnt > RAA_DMPVR2_CFG_MAX_SLOT)

(***************************************************************************)
(* The character at offset c of line k once strsep has returned line k:   *)
(* its newline has been overwritten by NUL, the lines after it are still  *)
(* in the buffer behind it.  Inputs never make the parser read past the   *)
(* terminator of the whole buffer; that position reads as NUL.            *)
(***************************************************************************)
RECURSIVE Behind(_, _, _)
Behind(inp, k, c) ==
  LET l == Line(inp, k)
  IN IF c < Len(l) THEN l[c + 1]
     ELSE IF k >= NLines(inp) THEN "NUL"
     ELSE IF c = Len(l) THEN "\n"
     ELSE Behind(inp, k + 1, c - Len(l) - 1)

CharAt(inp, k, c) ==
  LET l == Line(inp, k)
  IN IF c < Len(l) THEN l[c + 1]
     ELSE IF c = Len(l) \/ k >= NLines(inp) THEN "NUL"
     ELSE Behind(inp, k + 1, c - Len(l) - 1)

HexAt(inp, k, c) == raa_dmpvr2_hextou8(CharAt(inp, k, c), CharAt(inp, k, c + 1))

(***************************************************************************)
(* The header loop (isl68137.c:361-375): line i gives dev_id (i = 1) or   *)
(* dev_rev (i = 2); byte j = 3..0 is the pair at column 8 + 2 * (3 - j).  *)
(***************************************************************************)
lsta == 2
csta == 6
dsta == 8

HdrOk(inp, i) == \A j \in 0..3 : HexAt(inp, i, dsta + 2 * (3 - j)).ret = 0

HdrBytes(inp, i) == [j \in 0..3 |-> HexAt(inp, i, dsta + 2 * (3 - j)).val]

(***************************************************************************)
(* One command line (isl68137.c:381-396).  The stored length is the       *)
(* declared byte minus 3, as a u8.  data holds the payload bytes decoded  *)
(* before the first failure, ret the first non-zero hextou8 result.       *)
(***************************************************************************)
U8(x) == x % 256

RECURSIVE Payload(_, _, _, _, _)
Payload(inp, k, j, len, acc) ==
  IF j >= len THEN [ret |-> 0, data |-> acc]
  ELSE LET h == HexAt(inp, k, dsta + 2 * j)
       IN IF h.ret # 0 THEN [ret |-> h.ret, data |-> acc]
          ELSE Payload(inp, k, j + 1, len, Append(acc, h.val))

ParseCmd(inp, k) ==
  LET hl == HexAt(inp, k, lsta)
      hc == HexAt(inp, k, csta)
      len == U8(hl.val - 3)
      pl == Payload(inp, k, 0, len, <<>>)
  IN IF hl.ret # 0 THEN [ret |-> hl.ret, len |-> 0, cmd |-> 0, data |-> <<>>]
     ELSE IF hc.ret # 0 THEN [ret |-> hc.ret, len |-> len, cmd |-> 0, data |-> <<>>]
     ELSE [ret |-> pl.ret, len |-> len, cmd |-> hc.val, data |-> pl.data]

\* strncmp(line, "49", 2) != 0
NotSentinel(inp, k) == CharAt(inp, k, 0) # "4" \/ CharAt(inp, k, 1) # "9"

(***************************************************************************)
(* The texts submitted to the program endpoint.  648 lines make one slot  *)
(* (290 + 358); the sentinel run supplies the bulk of the lines.           *)
(***************************************************************************)
Cmd4 == CmdLine(7, 16, <<170, 187, 204, 221>>)
Cmd2 == CmdLine(5, 33, <<52, 18>>)
Cmd3 == CmdLine(6, 34, <<1, 2, 3>>)
Cmd6 == CmdLine(9, 35, <<1, 2, 3, 4, 5, 6>>)
CmdBadHex == <<"0","0","0","5","C","0","2","1","3","G","1","2","5","A">>

\* A sentinel line that holds the marker only.
Sentinel == <<"4","9">>

IdLine == HdrLine(4, 3, 2, 1)
BadIdLine == [IdLine EXCEPT ![dsta + 4] = "G"]
RevLine == HdrLine(2, 0, 0, 0)

Input(idline, revline, npad, body, trail) ==
  [idline |-> idline, revline |-> revline, npad |-> npad, body |-> body,
   trail |-> trail]

Inputs ==
  << Input(IdLine, RevLine, 645, <<Cmd4>>, FALSE),            \* 648 lines
     Input(IdLine, RevLine, 644, <<Cmd4, Cmd2>>, TRUE),       \* 648 lines, "\n" at the end
     Input(IdLine, RevLine, 644, <<Cmd4>>, FALSE),            \* 647 lines
     Input(IdLine, RevLine, 646, <<Cmd2>>, FALSE),            \* 649 lines
     Input(HdrLine(4, 3, 2, 2), RevLine, 645, <<Cmd4>>, FALSE),   \* other id, larger
     Input(HdrLine(3, 3, 2, 1), RevLine, 645, <<Cmd4>>, FALSE),   \* other id, smaller
     Input(IdLine, HdrLine(3, 0, 0, 0), 645, <<Cmd4>>, FALSE),    \* other revision
     Input(IdLine, HdrLine(2, 0, 0, 9), 645, <<Cmd4>>, FALSE),    \* revision byte not compared
     Input(IdLine, RevLine, 644, <<Cmd4, Cmd3>>, FALSE),      \* a length-3 command, second
     Input(IdLine, RevLine, 644, <<Cmd3, Cmd4>>, FALSE),      \* a length-3 command, first
     Input(IdLine, RevLine, 644, <<Cmd2, CmdBadHex>>, FALSE), \* a bad hex digit
     Input(IdLine, RevLine, 1003, <<Cmd4>>, FALSE),           \* 1006 lines: two slots
     Input(IdLine, RevLine, 6373, <<Cmd2>>, FALSE),           \* 6376 lines: 17 slots
     Input(IdLine, RevLine, 643, <<Cmd4, Sentinel, Cmd2>>, FALSE),  \* a bare "49" line
     Input(IdLine, RevLine, 645, <<Cmd4, <<>>, <<>>, <<>>>>, FALSE), \* blank lines at the end
     Input(BadIdLine, RevLine, 645, <<Cmd4>>, FALSE),         \* a bad hex digit in the id
     Input(IdLine, RevLine, 3509, <<Cmd4>>, FALSE),           \* 3512 lines: nine slots
     Input(IdLine, RevLine, 645, <<Cmd6>>, FALSE) >>          \* a command of six payload bytes

InputIds == 1..Len(Inputs)

RECURSIVE SumLen(_)
SumLen(lines) == IF lines = <<>> THEN 0 ELSE Len(Head(lines)) + SumLen(Tail(lines))

\* strlen of the text: the count simple_write_to_buffer returns.
TextLen(inp) ==
  Len(inp.idline) + Len(inp.revline) + inp.npad * Len(PadLine) + SumLen(inp.body)
    + (NLines(inp) - 1)

(***************************************************************************)
(* Integer helpers: bytes, 32-bit two's complement OR, memcmp.             *)
(***************************************************************************)
RECURSIVE Bits(_, _, _, _)
\* Bitwise combination of two non-negative ints over n bits: op is "or",
\* "and" or "andnot".
Bits(op, a, b, n) ==
  IF n = 0 THEN 0
  ELSE LET x == a % 2 = 1
           y == b % 2 = 1
           z == IF op = "or" THEN x \/ y ELSE IF op = "and" THEN x /\ y ELSE x /\ ~y
       IN (IF z THEN 1 ELSE 0) + 2 * Bits(op, a \div 2, b \div 2, n - 1)

\* a | b on C ints (two's complement): ~x = -x - 1, a | b = ~(~a & ~b).
Or32(a, b) ==
  IF a >= 0 /\ b >= 0 THEN Bits("or", a, b, 31)
  ELSE IF a < 0 /\ b < 0 THEN -Bits("and", -a - 1, -b - 1, 31) - 1
  ELSE IF a < 0 THEN -Bits("andnot", -a - 1, b, 31) - 1
  ELSE -Bits("andnot", -b - 1, a, 31) - 1

\* memcmp over the index sets given: the difference of the first bytes that differ.
Memcmp(a, ia, b, ib, n) ==
  IF \A k \in 0..(n - 1) : a[ia + k] = b[ib + k] THEN 0
  ELSE LET k == CHOOSE k \in 0..(n - 1) :
                  a[ia + k] # b[ib + k] /\ \A m \in 0..(k - 1) : a[ia + m] = b[ib + m]
       IN a[ia + k] - b[ib + k]

Buf4(b0, b1, b2, b3) == [k \in 0..3 |-> <<b0, b1, b2, b3>>[k + 1]]
Buf5(b0, b1, b2, b3, b4) == [k \in 0..4 |-> <<b0, b1, b2, b3, b4>>[k + 1]]

(***************************************************************************)
(* The device, as the driver's register protocol addresses it: an         *)
(* identity read with the PMBus ID commands, and a memory window whose    *)
(* address is set by writing RAA_DMPVR2_DMA_ADDR and which is read at     *)
(* RAA_DMPVR2_DMA_FIX (address kept) or RAA_DMPVR2_DMA_SEQ (address       *)
(* advanced after the read).                                               *)
(***************************************************************************)
Procs == {1, 2}

VARIABLES
  pc,        \* pc[p]: where caller p is in raa_dmpvr2_write_cfg / read_black_box
  run,       \* run[p]: the locals of p's invocation
  dmaAddr,   \* the device's window address
  devStatus, \* first byte of the device's programming-status word
  dev,       \* the device's free-slot count and bank-status words
  faults,    \* bus transactions that did not complete so far
  nproc,     \* callers that may invoke an endpoint
  serial,    \* TRUE when the callers take turns, one whole operation each
  texts,     \* the texts (indices of Inputs) a caller may submit
  lastTx,    \* the caller that issued the latest bus transaction (0: none)
  torn,      \* callers that read the window after another caller's transaction
  switches   \* times a caller's transaction interrupted another's operation

vars == <<pc, run, dmaAddr, devStatus, dev, faults, nproc, serial, texts, lastTx,
          torn, switches>>

DevId == Buf5(4, 1, 2, 3, 4)
DevRev == Buf5(4, 0, 0, 0, 2)

BBWord(k) == Buf4(16 + k, 255 - k, 171, 205)

Mem(addr) ==
  IF addr = RAA_DMPVR2_NVM_CNT_ADDR THEN Buf4(dev.free, 0, 0, 0)
  ELSE IF addr = RAA_DMPVR2_PRGM_STATUS_ADDR THEN Buf4(devStatus, 0, 0, 0)
  ELSE IF addr = RAA_DMPVR2_BANK0_STATUS_ADDR THEN dev.bank0
  ELSE IF addr = RAA_DMPVR2_BANK1_STATUS_ADDR THEN dev.bank1
  ELSE IF addr >= RAA_DMPVR2_BB_BASE_ADDR
          /\ addr < RAA_DMPVR2_BB_BASE_ADDR + RAA_DMPVR2_BB_WCNT
       THEN BBWord(addr - RAA_DMPVR2_BB_BASE_ADDR)
  ELSE Buf4(0, 0, 0, 0)

\* The window address after a word write of value to register reg.
DevWrite(reg, value) == IF reg = RAA_DMPVR2_DMA_ADDR THEN value % 65536 ELSE dmaAddr

\* The window address after a completed read of register reg.
DevRead(reg) == IF reg = RAA_DMPVR2_DMA_SEQ THEN (dmaAddr + 1) % 65536 ELSE dmaAddr

(***************************************************************************)
(* What the bus calls may return.  i2c_transfer returns the number of     *)
(* messages executed or a negative errno; i2c_smbus_write_word_data       *)
(* returns 0 or a negative errno.                                          *)
(***************************************************************************)
BusErrnos == {-EIO, -ENXIO}

i2c_transfer(num) ==
  {num} \cup (IF faults < MaxFaults THEN (0..(num - 1)) \cup BusErrnos ELSE {})

i2c_smbus_write_word_data ==
  {0} \cup (IF faults < MaxFaults THEN BusErrnos ELSE {})

\* raa_smbus_read40, raa_dmpvr2_smbus_read32: the value returned for the
\* i2c_transfer result status.
raa_smbus_read40(status) == IF status # 2 THEN status ELSE 0
raa_dmpvr2_smbus_read32(status) == IF status # 2 THEN status ELSE 0
raa_dmpvr2_smbus_write32(status) == IF status # 1 THEN status ELSE 0

(***************************************************************************)
(* Values of memory the code reads without having written it.             *)
(***************************************************************************)
Junk4 == {Buf4(0, 0, 0, 0), Buf4(17, 17, 17, 17), Buf4(255, 255, 255, 255)}

Junk5(r) ==
  {Buf5(0, 0, 0, 0, 0), Buf5(255, 255, 255, 255, 255),
   Buf5(4, r.cfg_id[0], r.cfg_id[1], r.cfg_id[2], r.cfg_id[3]),
   Buf5(4, r.cfg_rev[0], r.cfg_rev[1], r.cfg_rev[2], r.cfg_rev[3])}

Uninit == [init |-> FALSE, cmd |-> 0, len |-> 0, data |-> <<>>]

JunkCmds ==
  {[init |-> TRUE, cmd |-> 0, len |-> 0, data |-> <<>>],
   [init |-> TRUE, cmd |-> 255, len |-> 2, data |-> <<255, 255>>]}

Entry(c) == IF c.init THEN {c} ELSE JunkCmds

NoRun ==
  [op |-> "none", inp |-> 0, ret |-> 0, retval |-> 0,
   slot_cnt |-> 0, cmd_cnt |-> 0, cmds |-> <<>>,
   cfg_id |-> Buf4(0, 0, 0, 0), cfg_rev |-> Buf4(0, 0, 0, 0),
   line |-> 0, fill |-> 0, i |-> 0,
   id5 |-> Buf5(0, 0, 0, 0, 0), rev5 |-> Buf5(0, 0, 0, 0, 0),
   data |-> Buf4(0, 0, 0, 0), data1 |-> Buf4(0, 0, 0, 0),
   elapsed |-> 0, out |-> <<>>, len |-> 0, ppos |-> 0, buf |-> <<>>,
   exit |-> "none", sends |-> 0, polls |-> 0, banks |-> 0, fails |-> {},
   log |-> <<>>, wire |-> <<>>, txs |-> <<>>, stored |-> 0,
   live |-> {}, bad |-> {}]

\* The bank-status words the device may show once it has programmed.
Banks ==
  {[bank0 |-> Buf4(17, 17, 17, 17), bank1 |-> Buf4(17, 17, 17, 17)],
   [bank0 |-> Buf4(33, 17, 17, 17), bank1 |-> Buf4(17, 17, 17, 17)],
   [bank0 |-> Buf4(18, 17, 17, 17), bank1 |-> Buf4(17, 17, 17, 17)],
   [bank0 |-> Buf4(17, 17, 17, 17), bank1 |-> Buf4(18, 17, 17, 33)]}

FreeSlots == {0, 1, 9}

NoBanks == [bank0 |-> Buf4(0, 0, 0, 0), bank1 |-> Buf4(0, 0, 0, 0)]

Device(f, b) == [free |-> f, bank0 |-> b.bank0, bank1 |-> b.bank1]

InitDev ==
  /\ dev \in {Device(f, NoBanks) : f \in FreeSlots}
  /\ dmaAddr \in {RAA_DMPVR2_BB_BASE_ADDR, RAA_DMPVR2_BANK1_STATUS_ADDR}
  /\ devStatus = 0

InitCallers ==
  /\ pc = [p \in Procs |-> "idle"]
  /\ run = [p \in Procs |-> NoRun]
  /\ lastTx = 0
  /\ torn = {}
  /\ switches = 0

Init ==
  /\ InitDev /\ InitCallers /\ faults = 0 /\ nproc = 1 /\ serial = FALSE
  /\ texts = InputIds

\* Two callers on a healthy bus: caller 1 may program, both may dump.
InitConc ==
  /\ dev = Device(1, NoBanks)
  /\ dmaAddr = RAA_DMPVR2_BB_BASE_ADDR
  /\ devStatus = 0
  /\ InitCallers /\ faults = MaxFaults /\ nproc = 2 /\ serial = FALSE
  /\ texts = {1}

\* Two invocations one after the other on a healthy bus: caller 2 starts
\* when caller 1 has returned.
InitSeq ==
  /\ dev \in {Device(f, NoBanks) : f \in {1, 2}}
  /\ dmaAddr = RAA_DMPVR2_BB_BASE_ADDR
  /\ devStatus = 0
  /\ InitCallers /\ faults = MaxFaults /\ nproc = 2 /\ serial = TRUE
  /\ texts = {3, 12}

\* The texts a caller submits, and the callers of the two endpoints.
Submitted == texts
Writers == IF serial THEN Procs ELSE {1}
Readers == IF nproc = 1 THEN {1} ELSE IF serial THEN Procs ELSE {2}

\* When the callers take turns, p starts once the callers before it have
\* returned and while those after it have not begun.
InTurn(p) ==
  serial => \A q \in Procs : /\ q < p => pc[q] = "done"
                             /\ q > p => pc[q] = "idle"

\* The read requests a caller makes of the dump endpoint: the length asked
\* for and the file offset.
Request(len, pos) == [len |-> len, pos |-> pos]

ReadRequests ==
  IF nproc = 1
  THEN {Request(4096, 0), Request(288, 0), Request(10, 0), Request(100, 250),
        Request(4096, 288)}
  ELSE {Request(4096, 0)}

(***************************************************************************)
(* The buffers of an invocation of raa_dmpvr2_write_cfg: "cfg" the        *)
(* configuration record, "cbuf" the copy of the text, "cmds" the command  *)
(* list.  live holds the buffers allocated and not yet released, bad the  *)
(* buffers passed to kfree while not live.                                 *)
(***************************************************************************)
kmalloc(r, b) == [r EXCEPT !.live = @ \cup {b}]

kfree(r, b) ==
  [r EXCEPT !.live = @ \ {b},
            !.bad = IF b \in r.live THEN @ ELSE @ \cup {b}]

\* isl68137.c:402-404, the label parse_err of raa_dmpvr2_parse_cfg.
parse_err(r) == kfree(r, "cmds")

\* An error path that releases the command list a second time.
dev_err_twice(r) == kfree(kfree(kfree(kfree(r, "cmds"), "cmds"), "cbuf"), "cfg")

\* isl68137.c:564-570, the labels of raa_dmpvr2_write_cfg that a failure
\* jumps to, and isl68137.c:557-561, the end of a successful run.
dev_err(r) == kfree(kfree(kfree(r, "cmds"), "cbuf"), "cfg")
write_cfg_parse_err(r) == kfree(kfree(r, "cbuf"), "cfg")
write_cfg_end(r) == kfree(kfree(kfree(r, "cbuf"), "cmds"), "cfg")

\* What the exit path of the statement that returns releases.
Release(r, why) ==
  IF why = "format" THEN write_cfg_parse_err(r)
  ELSE IF why = "success" THEN write_cfg_end(r)
  ELSE IF why = "dump" THEN r
  ELSE dev_err(r)

(***************************************************************************)
(* Helpers of the actions.                                                 *)
(***************************************************************************)
\* The caller's invocation returns v: every exit path of
\* raa_dmpvr2_write_cfg (isl68137.c:557-570) and the return of
\* raa_dmpvr2_read_black_box.  exit records which statement returned.
Return(p, r, v, why) ==
  /\ pc' = [pc EXCEPT ![p] = "done"]
  /\ run' = [run EXCEPT ![p] = [Release(r, why) EXCEPT !.retval = v, !.exit = why]]

Goto(p, r, l) ==
  /\ pc' = [pc EXCEPT ![p] = l]
  /\ run' = [run EXCEPT ![p] = r]

\* p's transaction comes between two of another caller's operation.
Interrupts(p) == lastTx \notin {0, p} /\ pc[lastTx] \notin {"idle", "done"}

\* A bus transaction by p whose call returned completed or not.
Bus(p, completed) ==
  /\ Interrupts(p) => switches < MaxSwitches
  /\ faults' = IF completed THEN faults ELSE faults + 1
  /\ lastTx' = p
  /\ switches' = IF Interrupts(p) THEN switches + 1 ELSE switches

\* The same for a read through the window, which depends on the selector
\* p wrote before it.
WindowBus(p, completed) ==
  /\ Bus(p, completed)
  /\ torn' = IF lastTx # p THEN torn \cup {p} ELSE torn

\* Bookkeeping of a transaction of kind what: fails collects the kinds of
\* the transactions that did not complete, log the kinds "send", "poll"
\* and "bank" in the order they were first issued.
Logged(log, what) ==
  LET k == IF what \in {"send"} THEN "send"
           ELSE IF what = "poll" THEN "poll"
           ELSE IF what \in {"bank0_rd", "bank1_rd"} THEN "bank" ELSE "none"
  IN IF k = "none" \/ (Len(log) > 0 /\ log[Len(log)] = k) THEN log
     ELSE Append(log, k)

Tx(r, what, completed) ==
  [r EXCEPT !.fails = IF completed THEN @ ELSE @ \cup {what},
            !.log = Logged(@, what)]

(***************************************************************************)
(* The debugfs entry points (isl68137.c:573-602) and the start of         *)
(* raa_dmpvr2_write_cfg: the text is copied, ret is the byte count.       *)
(***************************************************************************)
raa_dmpvr2_debugfs_write(p, n) ==
  /\ pc[p] = "idle" /\ p \in Writers /\ n \in Submitted /\ InTurn(p)
  /\ Goto(p, kmalloc(kmalloc([NoRun EXCEPT !.op = "write_cfg", !.inp = n,
                                           !.ret = TextLen(Inputs[n])],
                                   "cfg"), "cbuf"), "parse")
  /\ UNCHANGED <<dmaAddr, devStatus, dev, faults, nproc, serial, texts, lastTx, torn, switches>>

raa_dmpvr2_debugfs_read(p, q) ==
  /\ pc[p] = "idle" /\ p \in Readers /\ q \in ReadRequests /\ InTurn(p)
  /\ Goto(p, [NoRun EXCEPT !.op = "read_black_box", !.len = q.len,
                           !.ppos = q.pos], "bb_sel")
  /\ UNCHANGED <<dmaAddr, devStatus, dev, faults, nproc, serial, texts, lastTx, torn, switches>>

(***************************************************************************)
(* raa_dmpvr2_parse_cfg.                                                   *)
(***************************************************************************)
\* isl68137.c:344-358: count, derive the slot count, allocate the commands.
ParseCount(p) ==
  /\ pc[p] = "parse"
  /\ LET r == run[p]
         ps == PreScan(Inputs[r.inp])
         sc == SlotCnt(ps.lcnt)
     IN IF SlotCntOk(sc)
        THEN Goto(p, kmalloc([r EXCEPT !.slot_cnt = sc, !.cmd_cnt = ps.ccnt,
                                       !.cmds = [k \in 1..ps.ccnt |-> Uninit]],
                             "cmds"), "parse_hdr")
        ELSE Return(p, [r EXCEPT !.slot_cnt = sc], -EINVAL, "format")
  /\ UNCHANGED <<dmaAddr, devStatus, dev, faults, nproc, serial, texts, lastTx, torn, switches>>

\* isl68137.c:360-375: the two header lines.
ParseHeader(p) ==
  /\ pc[p] = "parse_hdr"
  /\ LET r == run[p]
         inp == Inputs[r.inp]
     IN IF HdrOk(inp, 1) /\ HdrOk(inp, 2)
        THEN Goto(p, [r EXCEPT !.cfg_id = HdrBytes(inp, 1),
                               !.cfg_rev = HdrBytes(inp, 2),
                               !.line = 2, !.fill = 0], "parse_cmds")
        ELSE Return(p, parse_err(r), -EINVAL, "format")
  /\ UNCHANGED <<dmaAddr, devStatus, dev, faults, nproc, serial, texts, lastTx, torn, switches>>

\* isl68137.c:377-400: one turn of the command loop.  line is the index of
\* the line strsep returned last (NLines + 1 stands for NULL), fill is i,
\* stored the greatest number of payload bytes written into one entry.
ParseLine(p) ==
  /\ pc[p] = "parse_cmds"
  /\ LET r == run[p]
         inp == Inputs[r.inp]
         k == r.line
     IN IF k <= NLines(inp) /\ Len(Line(inp, k)) > dsta + 2
        THEN IF NotSentinel(inp, k)
             THEN LET c == ParseCmd(inp, k)
                      w == [r EXCEPT !.stored = IF Len(c.data) > @ THEN Len(c.data)
                                                ELSE @]
                  IN IF c.ret # 0
                     THEN Return(p, parse_err(w), c.ret, "format")
                     ELSE Goto(p, [w EXCEPT
                                     !.cmds[r.fill + 1] =
                                        [init |-> TRUE, cmd |-> c.cmd,
                                         len |-> c.len, data |-> c.data],
                                     !.fill = r.fill + 1, !.line = k + 1],
                               "parse_cmds")
             ELSE Goto(p, [r EXCEPT !.line = k + 1], "parse_cmds")
        ELSE Goto(p, r, "rd_id")
  /\ UNCHANGED <<dmaAddr, devStatus, dev, faults, nproc, serial, texts, lastTx, torn, switches>>

(***************************************************************************)
(* raa_dmpvr2_verify_device (isl68137.c:407-424).                          *)
(***************************************************************************)
VerifyStatus(r) ==
  Or32(Memcmp(r.cfg_id, 0, r.id5, 1, 4), Memcmp(r.cfg_rev, 3, r.rev5, 4, 1))

ReadDeviceId(p) ==
  /\ pc[p] = "rd_id"
  /\ \E st \in i2c_transfer(2) :
       \E buf \in (IF st = 2 THEN {DevId}
                   ELSE IF st = 0 THEN Junk5(run[p]) ELSE {run[p].id5}) :
         LET r == Tx([run[p] EXCEPT !.id5 = buf], "id", st = 2)
             status == raa_smbus_read40(st)
         IN /\ IF status # 0 THEN Return(p, r, status, "transport")
               ELSE Goto(p, r, "rd_rev")
            /\ Bus(p, st = 2)
  /\ UNCHANGED <<dmaAddr, devStatus, dev, nproc, serial, texts, torn>>

ReadDeviceRev(p) ==
  /\ pc[p] = "rd_rev"
  /\ \E st \in i2c_transfer(2) :
       \E buf \in (IF st = 2 THEN {DevRev}
                   ELSE IF st = 0 THEN Junk5(run[p]) ELSE {run[p].rev5}) :
         LET r == Tx([run[p] EXCEPT !.rev5 = buf], "rev", st = 2)
             status == raa_smbus_read40(st)
         IN /\ IF status # 0 THEN Return(p, r, status, "transport")
               ELSE IF VerifyStatus(r) # 0
               THEN Return(p, r, VerifyStatus(r), "identity")
               ELSE Goto(p, r, "chk_sel")
            /\ Bus(p, st = 2)
  /\ UNCHANGED <<dmaAddr, devStatus, dev, nproc, serial, texts, torn>>

(***************************************************************************)
(* raa_dmpvr2_check_cfg (isl68137.c:426-437).                              *)
(***************************************************************************)
CheckSelect(p) ==
  /\ pc[p] = "chk_sel"
  /\ \E st \in i2c_smbus_write_word_data :
       /\ dmaAddr' = IF st = 0
                     THEN DevWrite(RAA_DMPVR2_DMA_ADDR, RAA_DMPVR2_NVM_CNT_ADDR)
                     ELSE dmaAddr
       /\ Goto(p, Tx(run[p], "chk_sel", st = 0), "chk_rd")
       /\ Bus(p, st = 0)
  /\ UNCHANGED <<devStatus, dev, nproc, serial, texts, torn>>

AfterCheck(r) == IF r.cmd_cnt = 0 THEN "poll_sel" ELSE "send"

CheckRead(p) ==
  /\ pc[p] = "chk_rd"
  /\ \E st \in i2c_transfer(2) :
       \E buf \in (IF st = 2 THEN {Mem(dmaAddr)} ELSE Junk4) :
         LET r == Tx([run[p] EXCEPT !.data = buf], "chk_rd", st = 2)
         IN /\ IF r.slot_cnt > r.data[0]
               THEN Return(p, r, -EINVAL, "capacity")
               ELSE Goto(p, [r EXCEPT !.i = 0], AfterCheck(r))
            /\ dmaAddr' = IF st = 2 THEN DevRead(RAA_DMPVR2_DMA_SEQ) ELSE dmaAddr
            /\ WindowBus(p, st = 2)
  /\ UNCHANGED <<devStatus, dev, nproc, serial, texts>>

(***************************************************************************)
(* raa_dmpvr2_send_cfg (isl68137.c:439-472): one turn of the loop.        *)
(***************************************************************************)
Word16(c) == c.data[1] + 256 * c.data[2]

\* A double word assembled with the last payload byte least significant.
Word32Reversed(c) ==
  [lo |-> c.data[4] + 256 * c.data[3], hi |-> c.data[2] + 256 * c.data[1]]

\* isl68137.c:457-460: dbl_word, a u32 kept as its two 16-bit halves.  The
\* shift data[3] << 24 is done in int; the kernel is built with
\* -fno-strict-overflow, so it wraps into the sign bit and the conversion
\* to u32 keeps the bits.
Word32(c) ==
  [lo |-> c.data[1] + 256 * c.data[2], hi |-> c.data[3] + 256 * c.data[4]]

\* isl68137.c:272-276: the message raa_dmpvr2_smbus_write32 builds.
Msg32(command, value) ==
  <<command, value.lo % 256, (value.lo \div 256) % 256,
    value.hi % 256, (value.hi \div 256) % 256>>

\* The bytes i2c_smbus_write_word_data puts on the bus: the register, then
\* the low and the high byte of the word.
MsgWord(command, word) == <<command, word % 256, (word \div 256) % 256>>

\* A loop that leaves for the status poll after its first command.
AfterSendEarly(r) == "poll_sel"

AfterSend(r) == IF r.i + 1 >= r.cmd_cnt THEN "poll_sel" ELSE "send"

\* An entry of wire, the command writes of a run in the order they were
\* issued: the command, the bytes put on the bus and whether the write
\* completed.
Wrote(c, bytes, completed) == [c |-> c, bytes |-> bytes, completed |-> completed]

\* isl68137.c:446-470: one turn of the loop of raa_dmpvr2_send_cfg.  A command
\* the device receives starts a programming, so its status reads 0 again.
SendCommand(p) ==
  /\ pc[p] = "send"
  /\ \E c \in Entry(run[p].cmds[run[p].i + 1]) :
       IF c.len = 2
       THEN \E st \in i2c_smbus_write_word_data :
              LET r == Tx([run[p] EXCEPT !.sends = @ + 1,
                                         !.wire = Append(@, Wrote(c, MsgWord(c.cmd, Word16(c)),
                                                                  st = 0))],
                          "send", st = 0)
              IN /\ IF st < 0 THEN Return(p, r, st, "transport")
                    ELSE Goto(p, [r EXCEPT !.i = @ + 1], AfterSend(r))
                 /\ dmaAddr' = IF st = 0 THEN DevWrite(c.cmd, Word16(c)) ELSE dmaAddr
                 /\ devStatus' = IF st = 0 THEN 0 ELSE devStatus
                 /\ Bus(p, st = 0)
       ELSE IF c.len = 4
       THEN \E st \in i2c_transfer(1) :
              LET r == Tx([run[p] EXCEPT !.sends = @ + 1,
                                         !.wire = Append(@, Wrote(c, Msg32(c.cmd, Word32(c)),
                                                                  st = 1))],
                          "send", st = 1)
                  status == raa_dmpvr2_smbus_write32(st)
              IN /\ IF status < 0 THEN Return(p, r, status, "transport")
                    ELSE Goto(p, [r EXCEPT !.i = @ + 1], AfterSend(r))
                 /\ dmaAddr' = IF st = 1 THEN DevWrite(c.cmd, Word32(c).lo) ELSE dmaAddr
                 /\ devStatus' = IF st = 1 THEN 0 ELSE devStatus
                 /\ Bus(p, st = 1)
       ELSE /\ Return(p, run[p], -EINVAL, "malformed")
            /\ UNCHANGED <<dmaAddr, devStatus, faults, lastTx, switches>>
  /\ UNCHANGED <<dev, nproc, serial, texts, torn>>

(***************************************************************************)
(* raa_dmpvr2_cfg_write_result (isl68137.c:474-516).  elapsed is          *)
(* jiffies - start.                                                         *)
(***************************************************************************)
Budget == HZ + HZ

\* isl68137.c:484-486
PollSelect(p) ==
  /\ pc[p] = "poll_sel"
  /\ \E st \in i2c_smbus_write_word_data :
       /\ dmaAddr' = IF st = 0
                     THEN DevWrite(RAA_DMPVR2_DMA_ADDR, RAA_DMPVR2_PRGM_STATUS_ADDR)
                     ELSE dmaAddr
       /\ Goto(p, Tx([run[p] EXCEPT !.data = Buf4(0, 0, 0, 0), !.elapsed = 0],
                         "poll_sel", st = 0), "poll")
       /\ Bus(p, st = 0)
  /\ UNCHANGED <<devStatus, dev, nproc, serial, texts, torn>>

\* A loop condition without the time limit.
PollingUnbounded(r) == r.data[0] = 0

\* The condition of the while loop, isl68137.c:487.
Polling(r) == r.data[0] = 0 /\ ~(r.elapsed > Budget)

\* isl68137.c:487-490: one turn of the loop.
PollStatus(p) ==
  /\ pc[p] = "poll" /\ Polling(run[p])
  /\ \E st \in i2c_transfer(2) :
       /\ Goto(p, Tx([run[p] EXCEPT
                            !.data = IF st = 2 THEN Mem(dmaAddr) ELSE @,
                            !.polls = Min(@ + 1, MaxPolls)], "poll", st = 2), "poll")
       /\ dmaAddr' = IF st = 2 THEN DevRead(RAA_DMPVR2_DMA_FIX) ELSE dmaAddr
       /\ WindowBus(p, st = 2)
  /\ UNCHANGED <<devStatus, dev, nproc, serial, texts>>

\* isl68137.c:491-492: the loop has ended.
PollEnd(p) ==
  /\ pc[p] = "poll" /\ ~Polling(run[p])
  /\ IF run[p].data[0] # 1
     THEN Return(p, run[p], -ETIME, "timeout")
     ELSE Goto(p, run[p], "bank0_sel")
  /\ UNCHANGED <<dmaAddr, devStatus, dev, faults, nproc, serial, texts, lastTx, torn, switches>>

BankSelect(p, at, addr, next) ==
  /\ pc[p] = at
  /\ \E st \in i2c_smbus_write_word_data :
       /\ dmaAddr' = IF st = 0 THEN DevWrite(RAA_DMPVR2_DMA_ADDR, addr) ELSE dmaAddr
       /\ Goto(p, Tx(run[p], "bank_sel", st = 0), next)
       /\ Bus(p, st = 0)
  /\ UNCHANGED <<devStatus, dev, nproc, serial, texts, torn>>

\* isl68137.c:495-496 and 498-499
Bank0Select(p) == BankSelect(p, "bank0_sel", RAA_DMPVR2_BANK0_STATUS_ADDR, "bank0_rd")
Bank1Select(p) == BankSelect(p, "bank1_sel", RAA_DMPVR2_BANK1_STATUS_ADDR, "bank1_rd")

\* isl68137.c:497
Bank0Read(p) ==
  /\ pc[p] = "bank0_rd"
  /\ \E st \in i2c_transfer(2) :
       /\ Goto(p, Tx([run[p] EXCEPT
                            !.data = IF st = 2 THEN Mem(dmaAddr) ELSE @,
                            !.banks = @ + 1], "bank0_rd", st = 2), "bank1_sel")
       /\ dmaAddr' = IF st = 2 THEN DevRead(RAA_DMPVR2_DMA_FIX) ELSE dmaAddr
       /\ WindowBus(p, st = 2)
  /\ UNCHANGED <<devStatus, dev, nproc, serial, texts>>

\* A decoding that takes the nibble of every slot from the first word.
SlotStatusBank0(data, data1, i) ==
  LET j == IF i < 8 THEN i ELSE i - 8
  IN (data[j \div 2] \div (IF j % 2 = 0 THEN 1 ELSE 16)) % 16

\* isl68137.c:502-513: the status nibble of slot i.
SlotStatus(data, data1, i) ==
  LET j == IF i < 8 THEN i ELSE i - 8
      dptr == IF i < 8 THEN data ELSE data1
  IN (dptr[j \div 2] \div (IF j % 2 = 0 THEN 1 ELSE 16)) % 16

\* The value raa_dmpvr2_cfg_write_result returns after the bank reads.
SlotResult(r) ==
  IF \E i \in 0..(r.slot_cnt - 1) : SlotStatus(r.data, r.data1, i) # 1
  THEN -EIO ELSE 0

\* isl68137.c:500-515 and the return of raa_dmpvr2_write_cfg, 555-561.
Bank1Read(p) ==
  /\ pc[p] = "bank1_rd"
  /\ \E st \in i2c_transfer(2) :
       \E buf \in (IF st = 2 THEN {Mem(dmaAddr)} ELSE Junk4) :
         LET r == Tx([run[p] EXCEPT !.data1 = buf, !.banks = @ + 1], "bank1_rd", st = 2)
         IN /\ IF SlotResult(r) # 0
               THEN Return(p, r, SlotResult(r), "slot")
               ELSE Return(p, r, r.ret, "success")
            /\ dmaAddr' = IF st = 2 THEN DevRead(RAA_DMPVR2_DMA_FIX) ELSE dmaAddr
            /\ WindowBus(p, st = 2)
  /\ UNCHANGED <<devStatus, dev, nproc, serial, texts>>

(***************************************************************************)
(* raa_dmpvr2_read_black_box (isl68137.c:282-304).                         *)
(***************************************************************************)
\* An entry of txs, the bus transactions of a dump in the order they were
\* issued: a word write of val to reg, or a read of reg.
Issued(kind, reg, val) == [kind |-> kind, reg |-> reg, val |-> val]

\* A loop that reads one word more than the window holds.
MoreWordsLong(i) == i < RAA_DMPVR2_BB_WCNT + 1

\* The condition of the loop, isl68137.c:293.
MoreWords(i) == i < RAA_DMPVR2_BB_WCNT

BlackBoxSelect(p) ==
  /\ pc[p] = "bb_sel"
  /\ \E st \in i2c_smbus_write_word_data :
       /\ dmaAddr' = IF st = 0
                     THEN DevWrite(RAA_DMPVR2_DMA_ADDR, RAA_DMPVR2_BB_BASE_ADDR)
                     ELSE dmaAddr
       /\ Goto(p, Tx([run[p] EXCEPT
                            !.data = Buf4(0, 0, 0, 0), !.i = 0, !.out = <<>>,
                            !.txs = Append(@, Issued("write", RAA_DMPVR2_DMA_ADDR,
                                                     RAA_DMPVR2_BB_BASE_ADDR))],
                         "bb_sel", st = 0), "bb_rd")
       /\ Bus(p, st = 0)
  /\ UNCHANGED <<devStatus, dev, nproc, serial, texts, torn>>

\* A loop body that leaves out the newline after each word.
RenderBare(data) ==
  HexPair(data[0]) \o HexPair(data[1]) \o HexPair(data[2]) \o HexPair(data[3])

\* The characters one turn of the outer loop adds to out.
Render(data) ==
  HexPair(data[0]) \o HexPair(data[1]) \o HexPair(data[2]) \o HexPair(data[3])
    \o <<"\n">>

\* A copy that ignores the offset and the length asked for.
whole_buffer_read(count, pos, from, available) ==
  [ret |-> available, bytes |-> from, ppos |-> pos + available]

\* simple_read_from_buffer(to, count, ppos, from, available), called at
\* isl68137.c:303: what it returns, the bytes it copies to the caller and
\* the offset it leaves.
simple_read_from_buffer(count, pos, from, available) ==
  IF pos < 0 THEN [ret |-> -EINVAL, bytes |-> <<>>, ppos |-> pos]
  ELSE IF pos >= available \/ count = 0
  THEN [ret |-> 0, bytes |-> <<>>, ppos |-> pos]
  ELSE LET n == Min(count, available - pos)
       IN [ret |-> n, bytes |-> SubSeq(from, pos + 1, pos + n), ppos |-> pos + n]

BlackBoxRead(p) ==
  /\ pc[p] = "bb_rd"
  /\ \E st \in i2c_transfer(2) :
       LET d == IF st = 2 THEN Mem(dmaAddr) ELSE run[p].data
           r == Tx([run[p] EXCEPT
                      !.data = d, !.out = @ \o Render(d), !.i = @ + 1,
                      !.txs = Append(@, Issued("read", RAA_DMPVR2_DMA_SEQ, 0))],
                   "bb_rd", st = 2)
       IN /\ IF ~MoreWords(r.i)
             THEN LET res == simple_read_from_buffer(r.len, r.ppos, r.out,
                                                     RAA_DMPVR2_BB_BUF_SIZE)
                  IN Return(p, [r EXCEPT !.buf = res.bytes, !.ppos = res.ppos],
                            res.ret, "dump")
             ELSE Goto(p, r, "bb_rd")
          /\ dmaAddr' = IF st = 2 THEN DevRead(RAA_DMPVR2_DMA_SEQ) ELSE dmaAddr
          /\ WindowBus(p, st = 2)
  /\ UNCHANGED <<devStatus, dev, nproc, serial, texts>>

(***************************************************************************)
(* The environment: jiffies advance while a caller polls, and the device  *)
(* sets its programming status once the commands have been sent.          *)
(***************************************************************************)
InPoll(p) == pc[p] = "poll"

Tick ==
  /\ \E p \in Procs : InPoll(p) /\ run[p].elapsed <= Budget
  /\ run' = [p \in Procs |->
               IF InPoll(p) /\ run[p].elapsed <= Budget
               THEN [run[p] EXCEPT !.elapsed = @ + 1] ELSE run[p]]
  /\ UNCHANGED <<pc, dmaAddr, devStatus, dev, faults, nproc, serial, texts, lastTx, torn, switches>>

DeviceStatus ==
  /\ devStatus = 0
  /\ \E p \in Procs : pc[p] \in {"poll_sel", "poll"}
  /\ devStatus' \in {1, 2}
  /\ \E b \in Banks : dev' = Device(dev.free, b)
  /\ UNCHANGED <<pc, run, dmaAddr, faults, nproc, serial, texts, lastTx, torn, switches>>

Next ==
  \/ \E p \in Procs : \E n \in InputIds : raa_dmpvr2_debugfs_write(p, n)
  \/ \E p \in Procs : \E q \in ReadRequests : raa_dmpvr2_debugfs_read(p, q)
  \/ \E p \in Procs : ParseCount(p)
  \/ \E p \in Procs : ParseHeader(p)
  \/ \E p \in Procs : ParseLine(p)
  \/ \E p \in Procs : ReadDeviceId(p)
  \/ \E p \in Procs : ReadDeviceRev(p)
  \/ \E p \in Procs : CheckSelect(p)
  \/ \E p \in Procs : CheckRead(p)
  \/ \E p \in Procs : SendCommand(p)
  \/ \E p \in Procs : PollSelect(p)
  \/ \E p \in Procs : PollStatus(p)
  \/ \E p \in Procs : PollEnd(p)
  \/ \E p \in Procs : Bank0Select(p)
  \/ \E p \in Procs : Bank0Read(p)
  \/ \E p \in Procs : Bank1Select(p)
  \/ \E p \in Procs : Bank1Read(p)
  \/ \E p \in Procs : BlackBoxSelect(p)
  \/ \E p \in Procs : BlackBoxRead(p)
  \/ Tick
  \/ DeviceStatus

Spec == Init /\ [][Next]_vars

ConcSpec == InitConc /\ [][Next]_vars

SeqSpec == InitSeq /\ [][Next]_vars

(***************************************************************************)
(* Progress.  A caller that has entered an endpoint keeps running: every  *)
(* bus call returns and the kernel schedules the thread, so a step of its *)
(* invocation that stays possible is taken; jiffies advance while it      *)
(* polls.  Nothing obliges the device to report a status.                  *)
(***************************************************************************)
\* One caller on a bus that may fail, device with one free slot; the texts
\* are a one-slot configuration and one with too few lines.
InitLive ==
  /\ dev = Device(1, NoBanks)
  /\ dmaAddr = RAA_DMPVR2_BB_BASE_ADDR
  /\ devStatus = 0
  /\ InitCallers /\ faults = 0 /\ nproc = 1 /\ serial = FALSE
  /\ texts = {1, 3}

\* A step of p's invocation after its entry.
Step(p) ==
  \/ ParseCount(p) \/ ParseHeader(p) \/ ParseLine(p)
  \/ ReadDeviceId(p) \/ ReadDeviceRev(p)
  \/ CheckSelect(p) \/ CheckRead(p)
  \/ SendCommand(p)
  \/ PollSelect(p) \/ PollStatus(p) \/ PollEnd(p)
  \/ Bank0Select(p) \/ Bank0Read(p) \/ Bank1Select(p) \/ Bank1Read(p)
  \/ BlackBoxSelect(p) \/ BlackBoxRead(p)

LiveSpec ==
  /\ InitLive /\ [][Next]_vars
  /\ WF_vars(Tick)
  /\ \A p \in Procs : WF_vars(Step(p))

(***************************************************************************)
(* Properties of the write and dump operations.                            *)
(***************************************************************************)
Parsing == {"idle", "parse", "parse_hdr", "parse_cmds"}

\* The caller's write got past raa_dmpvr2_parse_cfg with a configuration.
Parsed(p) ==
  /\ run[p].op = "write_cfg"
  /\ pc[p] \notin Parsing
  /\ run[p].exit # "format"

\* The configuration names another part than the device: a byte of its id
\* or of its revision differs from the byte the device reports.
IdentityDiffers(r) ==
  \/ \E k \in 0..3 : r.cfg_id[k] # DevId[k + 1]
  \/ \E k \in 0..3 : r.cfg_rev[k] # DevRev[k + 1]

\* C1: a configuration file whose device id or device revision differs from
\* what the device reports never causes a command write.
C1_IdentityGating ==
  \A p \in Procs :
    (Parsed(p) /\ IdentityDiffers(run[p])) => run[p].sends = 0

\* C2: a configuration that needs more slots than the device reports free
\* never causes a command write.
C2_CapacityGating ==
  \A p \in Procs :
    (Parsed(p) /\ run[p].slot_cnt > dev.free) => run[p].sends = 0

\* The lines of the text that the command loop stores as commands.
CmdLines(inp) ==
  {k \in 3..NLines(inp) : Len(Line(inp, k)) > dsta + 2 /\ NotSentinel(inp, k)}

\* The text holds a command line whose declared length gives a payload of
\* neither 2 nor 4 bytes.
Malformed(inp) ==
  \E k \in CmdLines(inp) :
    ParseCmd(inp, k).ret = 0 /\ ParseCmd(inp, k).len \notin {2, 4}

\* C3: a write whose text holds a command of a length other than 2 or 4
\* ends in an error and writes no command to the device.
C3_MalformedRejectedFirst ==
  \A p \in Procs :
    (run[p].op = "write_cfg" /\ Malformed(Inputs[run[p].inp]))
      => /\ run[p].sends = 0
         /\ run[p].exit # "success"

\* The write returned from the last statement of raa_dmpvr2_write_cfg with
\* the byte count.
Success(p) ==
  pc[p] = "done" /\ run[p].op = "write_cfg" /\ run[p].exit = "success"

LatePhases == {"send", "poll_sel", "poll", "bank_sel", "bank0_rd", "bank1_rd"}

\* C4: a write ends in Success only if every command write completed, the
\* device reported programming status 1 and the device's bank status shows
\* nibble 1 for every slot of the configuration; no write in which a bus
\* transaction of these phases failed ends in Success.
C4_SuccessOnlyIfAllPass ==
  \A p \in Procs :
    Success(p) =>
      /\ run[p].fails \cap LatePhases = {}
      /\ run[p].sends = run[p].cmd_cnt
      /\ devStatus = 1
      /\ \A i \in 0..(run[p].slot_cnt - 1) :
           SlotStatus(dev.bank0, dev.bank1, i) = 1

Range(f) == {f[k] : k \in DOMAIN f}

\* C5: within one write the phases only move forward: command writes, then
\* status polls, then bank-status reads.  No poll is issued before the last
\* command write, no command write after the first poll, and no bank-status
\* read unless polling ended with status 1.
C5_PhaseOrder ==
  \A p \in Procs :
    LET r == run[p]
    IN /\ r.log \in {<<>>, <<"send">>, <<"poll">>, <<"send", "poll">>,
                     <<"poll", "bank">>, <<"send", "poll", "bank">>}
       /\ "poll" \in Range(r.log) => r.sends = r.cmd_cnt
       /\ pc[p] \in {"bank0_sel", "bank0_rd"} => r.data[0] = 1
       /\ r.banks > 0 => r.polls > 0

\* A write that sent its commands, polled and read the bank status.
C5_AllPhasesRun ==
  \E p \in Procs :
    /\ pc[p] = "done"
    /\ run[p].log = <<"send", "poll", "bank">>
    /\ run[p].cmd_cnt = 2 /\ run[p].sends = 2
    /\ run[p].fails = {}

\* C6: polling does not give up before the 2 second budget has elapsed: a
\* write that ends in Timeout has polled for longer than the budget,
\* whatever status values other than 1 the device reported.
C6_TimeoutOnlyAfterBudget ==
  \A p \in Procs :
    (pc[p] = "done" /\ run[p].exit = "timeout") => run[p].elapsed > Budget

\* C7: the bus transactions of one operation are not interleaved with those
\* of another operation on the same device: no caller reads the window
\* after another caller's transaction.
C7_Serialized == torn = {}

\* C8: a bus transaction that fails ends the operation with TransportError
\* at that transaction: no operation continues past a failed transaction.
C8_NoFailureSwallowed ==
  \A p \in Procs :
    run[p].fails # {} => (pc[p] = "done" /\ run[p].retval \in BusErrnos)

\* C9: a write returns a non-negative value only when it ended in Success;
\* every other outcome is returned as a negative error code.
C9_NonNegativeOnlyOnSuccess ==
  \A p \in Procs :
    (pc[p] = "done" /\ run[p].op = "write_cfg" /\ run[p].exit # "success")
      => run[p].retval < 0

\* The number of lines of the text.
TotalLines(inp) == 2 + inp.npad + Len(inp.body)

\* The line count corresponds to a whole number of slots from 1 to 16.
LineCountOk(n) ==
  /\ n >= RAA_DMPVR2_CFG_HEAD_LEN
  /\ (n - RAA_DMPVR2_CFG_HEAD_LEN) % RAA_DMPVR2_CFG_SLOT_LEN = 0
  /\ (n - RAA_DMPVR2_CFG_HEAD_LEN) \div RAA_DMPVR2_CFG_SLOT_LEN
       \in 1..RAA_DMPVR2_CFG_MAX_SLOT

\* C10: a text whose line count is not 290 + 358 * n for a whole n in 1..16
\* is rejected with InvalidFormat and gives no parsed configuration.
C10_LineCountRejected ==
  \A p \in Procs :
    (run[p].op = "write_cfg" /\ ~LineCountOk(TotalLines(Inputs[run[p].inp])))
      => /\ pc[p] \in {"parse", "done"}
         /\ pc[p] = "done" => (run[p].exit = "format" /\ run[p].retval = -EINVAL)

(***************************************************************************)
(* The format of a configuration text, read off its lines: two header     *)
(* lines with four hex pairs at column 8, then data lines that either     *)
(* begin with the marker "49" or are commands (hex pairs at columns 2 and *)
(* 6, then 2 or 4 payload pairs at column 8); blank lines at the end are  *)
(* padding.                                                                *)
(***************************************************************************)
RECURSIVE Unpadded(_)
Unpadded(lines) ==
  IF lines # <<>> /\ lines[Len(lines)] = <<>>
  THEN Unpadded(SubSeq(lines, 1, Len(lines) - 1)) ELSE lines

HexPairAt(l, c) == Len(l) >= c + 2 /\ IsHex(l[c + 1]) /\ IsHex(l[c + 2])

ByteAt(l, c) == 16 * HexVal(l[c + 1]) + HexVal(l[c + 2])

IsSentinelLine(l) == Len(l) >= 2 /\ l[1] = "4" /\ l[2] = "9"

IsHeaderLine(l) == \A j \in 0..3 : HexPairAt(l, 8 + 2 * j)

IsCommandLine(l) ==
  /\ HexPairAt(l, 2) /\ HexPairAt(l, 6)
  /\ ByteAt(l, 2) - 3 \in {2, 4}
  /\ \A j \in 0..(ByteAt(l, 2) - 4) : HexPairAt(l, 8 + 2 * j)

\* The command a command line stands for.
Decode(l) ==
  [init |-> TRUE, cmd |-> ByteAt(l, 6), len |-> ByteAt(l, 2) - 3,
   data |-> [j \in 1..(ByteAt(l, 2) - 3) |-> ByteAt(l, 8 + 2 * (j - 1))]]

RECURSIVE Commands(_)
\* The commands of a run of data lines, in file order.
Commands(lines) ==
  IF lines = <<>> THEN <<>>
  ELSE IF IsSentinelLine(Head(lines)) THEN Commands(Tail(lines))
  ELSE <<Decode(Head(lines))>> \o Commands(Tail(lines))

DataLineCount(inp) == inp.npad + Len(Unpadded(inp.body))

WellFormed(inp) ==
  /\ IsHeaderLine(inp.idline) /\ IsHeaderLine(inp.revline)
  /\ \A k \in 1..Len(Unpadded(inp.body)) :
       IsSentinelLine(inp.body[k]) \/ IsCommandLine(inp.body[k])
  /\ LineCountOk(2 + DataLineCount(inp))

Slots(inp) ==
  (2 + DataLineCount(inp) - RAA_DMPVR2_CFG_HEAD_LEN) \div RAA_DMPVR2_CFG_SLOT_LEN

\* C11: for every well-formed text with k slots the parser succeeds with
\* slot_cnt = k and with a command list that holds, in file order, the
\* parse of every data line that is not a sentinel line, and nothing else.
C11_RoundTripParse ==
  \A p \in Procs :
    (run[p].op = "write_cfg" /\ pc[p] \notin Parsing
       /\ WellFormed(Inputs[run[p].inp]))
      => /\ run[p].exit # "format"
         /\ run[p].slot_cnt = Slots(Inputs[run[p].inp])
         /\ run[p].cmd_cnt = Len(Commands(Unpadded(Inputs[run[p].inp].body)))
         /\ run[p].cmds = Commands(Unpadded(Inputs[run[p].inp].body))

\* A dump that has read i words, none of whose bus transactions failed.
CleanDump(p) ==
  /\ run[p].op = "read_black_box" /\ pc[p] \in {"bb_rd", "done"}
  /\ run[p].fails = {}

\* C12: when the 32 reads return the device's words, the text the reader
\* builds is 32 groups in read order, each 8 uppercase hex characters that
\* spell the 4 bytes of one word followed by a newline: 288 characters.
C12_BlackBoxRendering ==
  \A p \in Procs :
    CleanDump(p) =>
      LET r == run[p]
      IN /\ Len(r.out) = 9 * r.i
         /\ pc[p] = "done" => (r.i = 32 /\ Len(r.out) = 288)
         /\ \A g \in 0..(r.i - 1) :
              /\ r.out[9 * g + 9] = "\n"
              /\ \A j \in 0..3 :
                   /\ HexPairAt(r.out, 9 * g + 2 * j)
                   /\ ByteAt(r.out, 9 * g + 2 * j) = BBWord(g)[j]

\* A dump that read all 32 words of the device.
C12_DumpRendered ==
  \E p \in Procs : CleanDump(p) /\ pc[p] = "done" /\ Len(run[p].out) = 288

\* A dump request has returned.
Dumped(p) == run[p].op = "read_black_box" /\ pc[p] = "done"

\* C13 as stated: every read request returns the full 288-byte snapshot,
\* whatever length and offset were requested.
C13_WholeBuffer ==
  \A p \in Procs :
    Dumped(p) => (run[p].retval = 288 /\ run[p].buf = run[p].out)

\* C13 amended: a read request at offset pos for len bytes returns the
\* bytes of the 288-byte snapshot from pos on, at most len of them and none
\* at or beyond offset 288, and moves the offset past them; it returns the
\* full snapshot exactly when pos = 0 and len >= 288.
C13_SliceOfSnapshot ==
  \A p \in Procs :
    Dumped(p) =>
      LET r == run[p]
          pos == r.ppos - r.retval
      IN /\ Len(r.out) = 288
         /\ r.retval = Len(r.buf)
         /\ r.retval >= 0 /\ r.retval <= r.len /\ pos + r.retval <= 288
         /\ \A k \in 1..r.retval : r.buf[k] = r.out[pos + k]
         /\ (r.retval < r.len) => (pos + r.retval = 288 \/ pos >= 288)
         /\ (r.buf = r.out) <=> (pos = 0 /\ r.len >= 288)

\* A request for 10 bytes has returned 10 bytes of the snapshot.
C13_PartialRead ==
  \E p \in Procs : Dumped(p) /\ run[p].len = 10 /\ run[p].retval = 10

(***************************************************************************)
(* The values a failed run returns.                                        *)
(***************************************************************************)
\* The failure class of a finished run of raa_dmpvr2_write_cfg, "none" for a
\* run that did not fail.
FailureClass(r) ==
  IF r.op # "write_cfg" THEN "none"
  ELSE IF r.exit \in {"format", "malformed"} THEN "InvalidFormat"
  ELSE IF r.exit = "identity" THEN "IdentityMismatch"
  ELSE IF r.exit = "capacity" THEN "InsufficientCapacity"
  ELSE IF r.exit = "transport" THEN "TransportError"
  ELSE IF r.exit = "timeout" THEN "Timeout"
  ELSE IF r.exit = "slot" THEN "SlotFailure"
  ELSE "none"

Failed(p) == pc[p] = "done" /\ FailureClass(run[p]) # "none"

\* C14: two runs that fail in different classes return different values.
C14_DistinctFailureValues ==
  \A p, q \in Procs :
    (Failed(p) /\ Failed(q) /\ FailureClass(run[p]) # FailureClass(run[q]))
      => run[p].retval # run[q].retval

\* The least slot below slot_cnt whose status nibble is not 1, slot_cnt
\* when there is none.
FirstFailing(r) ==
  LET bad == {i \in 0..(r.slot_cnt - 1) : SlotStatus(r.data, r.data1, i) # 1}
  IN IF bad = {} THEN r.slot_cnt ELSE CHOOSE i \in bad : \A j \in bad : i <= j

\* C15: two runs that fail slot verification at different slots return
\* different values.
C15_SlotIndexReported ==
  \A p, q \in Procs :
    (/\ pc[p] = "done" /\ run[p].exit = "slot"
     /\ pc[q] = "done" /\ run[q].exit = "slot"
     /\ FirstFailing(run[p]) # FirstFailing(run[q]))
      => run[p].retval # run[q].retval

(***************************************************************************)
(* The device checks and the first command write.                          *)
(***************************************************************************)
\* The run has left raa_dmpvr2_verify_device with 0, so that
\* raa_dmpvr2_check_cfg reads the capacity register next or has read it.
PastIdentity(p) ==
  /\ Parsed(p)
  /\ pc[p] \notin {"rd_id", "rd_rev"}
  /\ run[p].exit # "identity"
  /\ run[p].exit = "transport" => run[p].sends > 0

\* C16: the capacity check begins only after both identity reads have
\* completed and the configuration matched the device, and a command is
\* written only after both transactions of the capacity check completed
\* and the device had the slots free.
C16_ChecksBeforeWrites ==
  \A p \in Procs :
    /\ PastIdentity(p) =>
         /\ run[p].fails \cap {"id", "rev"} = {}
         /\ ~IdentityDiffers(run[p])
    /\ (Parsed(p) /\ run[p].sends > 0) =>
         /\ run[p].fails \cap {"chk_sel", "chk_rd"} = {}
         /\ run[p].slot_cnt <= dev.free

(***************************************************************************)
(* A text the parser rejects.                                              *)
(***************************************************************************)
\* A command line with a character that is no hex digit in the pair of its
\* length, of its register or of its payload.
BadHexLine(l) ==
  \/ ~HexPairAt(l, 2) \/ ~HexPairAt(l, 6)
  \/ \E j \in 0..(ByteAt(l, 2) - 4) : ~HexPairAt(l, 8 + 2 * j)

\* The text has a defect the parser must reject: a bad hex digit in a
\* header line, a slot count outside 1..16, or a bad hex digit in a command
\* line that line processing reaches (no short line comes before it).
Defective(inp) ==
  \/ ~IsHeaderLine(inp.idline) \/ ~IsHeaderLine(inp.revline)
  \/ Slots(inp) \notin 1..RAA_DMPVR2_CFG_MAX_SLOT
  \/ \E k \in 1..Len(inp.body) :
       /\ \A j \in 1..k : Len(inp.body[j]) > dsta + 2
       /\ ~IsSentinelLine(inp.body[k])
       /\ BadHexLine(inp.body[k])

\* p's invocation has issued no bus transaction.
NoBus(p) ==
  /\ lastTx # p
  /\ run[p].fails = {} /\ run[p].log = <<>>
  /\ run[p].sends = 0 /\ run[p].polls = 0 /\ run[p].banks = 0

\* C17: a write whose text fails parsing (a bad hex digit in a header or
\* command line, a slot count out of range) ends in raa_dmpvr2_parse_cfg
\* with a negative value, before any bus transaction: neither the verifier
\* nor the engine ever runs on its configuration.
C17_ParseFailureIsLocal ==
  \A p \in Procs :
    (/\ run[p].op = "write_cfg" /\ pc[p] \notin Parsing
     /\ run[p].exit = "format" \/ Defective(Inputs[run[p].inp]))
      => /\ pc[p] = "done" /\ run[p].exit = "format"
         /\ run[p].retval < 0
         /\ NoBus(p)

\* A run has failed on a bad hex digit in its second command line, after
\* it had stored the first command.
C17_PartialConfigDropped ==
  \E p \in Procs :
    /\ pc[p] = "done" /\ run[p].exit = "format"
    /\ run[p].fill = 1 /\ run[p].cmd_cnt = 2
    /\ BadHexLine(Inputs[run[p].inp].body[2])

(***************************************************************************)
(* Completeness of success.                                                *)
(***************************************************************************)
\* Bus and device have done their part in p's run: every transaction
\* completed, the device has reported no status but 1, the budget has not
\* run out, and the status nibbles it shows for the first n slots are 1.
Cooperative(p, n) ==
  /\ run[p].fails = {}
  /\ devStatus # 2
  /\ run[p].elapsed <= Budget
  /\ devStatus = 1 => \A i \in 0..(n - 1) : SlotStatus(dev.bank0, dev.bank1, i) = 1

\* C18: a write of a well-formed text for this device that needs no more
\* slots than are free, whose transactions all complete, to which the
\* device reports status 1 within the budget and slot nibbles 1, ends in
\* Success.
C18_SuccessComplete ==
  \A p \in Procs :
    (/\ pc[p] = "done" /\ run[p].op = "write_cfg"
     /\ WellFormed(Inputs[run[p].inp])
     /\ ~IdentityDiffers(run[p])
     /\ Slots(Inputs[run[p].inp]) <= dev.free
     /\ Cooperative(p, Slots(Inputs[run[p].inp])))
      => run[p].exit = "success"

(***************************************************************************)
(* The command writes of a run.                                            *)
(***************************************************************************)
\* The run has entered raa_dmpvr2_send_cfg and left it, or has returned
\* from it.
SendDone(p) ==
  \/ pc[p] \in {"poll_sel", "poll", "bank0_sel", "bank0_rd", "bank1_sel", "bank1_rd"}
  \/ pc[p] = "done" /\ run[p].exit \in {"malformed", "timeout", "slot", "success"}
  \/ pc[p] = "done" /\ run[p].exit = "transport" /\ run[p].sends > 0

\* C19: the command writes of a run are a prefix of the parsed command
\* list, in order; they are the whole list once the send loop is over
\* unless a write did not complete; a write that did not complete is the
\* last one, ends the run with a transport error, and no poll or
\* bank-status transaction follows it.
C19_WritesArePrefix ==
  \A p \in Procs :
    LET w == run[p].wire
        cmds == run[p].cmds
        n == Len(w)
    IN run[p].op = "write_cfg" =>
         /\ n <= Len(cmds)
         /\ \A k \in 1..n : w[k].c = cmds[k]
         /\ (SendDone(p) /\ "send" \notin run[p].fails) => n = Len(cmds)
         /\ \A k \in 1..n :
              ~w[k].completed =>
                /\ k = n
                /\ pc[p] = "done" /\ run[p].exit = "transport"
                /\ run[p].polls = 0 /\ run[p].banks = 0

(***************************************************************************)
(* Slot verification.                                                      *)
(***************************************************************************)
\* The status nibble of slot i in the two words the run read: slots 0..7
\* lie in the first word, slots 8..15 in the second, two to a byte with the
\* even slot in the low half.
Nibble(r, i) ==
  LET word == IF i < 8 THEN r.data ELSE r.data1
      j == IF i < 8 THEN i ELSE i - 8
      byte == word[j \div 2]
  IN IF j % 2 = 0 THEN byte % 16 ELSE byte \div 16

\* The run has read both bank-status words and checked the slots.
Verified(p) == pc[p] = "done" /\ run[p].exit \in {"slot", "success"}

\* C20: slot verification passes exactly when the nibble of every slot
\* 0..slot_cnt-1 is 1, slots 0..7 decoded from the first bank word and
\* slots 8..15 from the second; the nibbles of the slots from slot_cnt on
\* have no influence.
C20_SlotDecoding ==
  \A p \in Procs :
    Verified(p) =>
      (run[p].exit = "success"
         <=> \A i \in 0..(run[p].slot_cnt - 1) : Nibble(run[p], i) = 1)

\* A nine-slot run has failed on slot 8, the first nibble of the second
\* word, although a later slot's nibble in that word is not 1 either and
\* all nibbles of the first word are 1.
C20_FailsInBank1 ==
  \E p \in Procs :
    /\ Verified(p) /\ run[p].exit = "slot" /\ run[p].fails = {}
    /\ run[p].slot_cnt = 9
    /\ \A i \in 0..7 : Nibble(run[p], i) = 1
    /\ Nibble(run[p], 8) = 2
    /\ Nibble(run[p], 15) = 2

(***************************************************************************)
(* The bus transactions of a dump.                                         *)
(***************************************************************************)
\* C21: every dump issues one word write of the black-box base address to
\* the window-address register and then 32 reads of the sequential
\* register, with no other transaction in between, whether or not a dump
\* was made before.
C21_DumpTransactions ==
  \A p \in Procs :
    LET t == run[p].txs
    IN run[p].op = "read_black_box" =>
         /\ pc[p] = "bb_sel" => t = <<>>
         /\ pc[p] \in {"bb_rd", "done"} =>
              /\ Len(t) >= 1 /\ Len(t) <= 1 + RAA_DMPVR2_BB_WCNT
              /\ t[1] = Issued("write", RAA_DMPVR2_DMA_ADDR, RAA_DMPVR2_BB_BASE_ADDR)
              /\ \A k \in 2..Len(t) : t[k] = Issued("read", RAA_DMPVR2_DMA_SEQ, 0)
         /\ pc[p] = "done" => Len(t) = 1 + RAA_DMPVR2_BB_WCNT

\* Two dumps were made one after the other, and the second issued its 33
\* transactions as the first did.
C21_SecondDumpReadsAgain ==
  \A p \in Procs :
    /\ pc[p] = "done" /\ run[p].op = "read_black_box"
    /\ Len(run[p].txs) = 1 + RAA_DMPVR2_BB_WCNT
    /\ Len(run[p].out) = RAA_DMPVR2_BB_BUF_SIZE

(***************************************************************************)
(* The results of the transfer helpers.                                    *)
(***************************************************************************)
\* The transactions whose result the caller of the helper tests: the two
\* reads of raa_dmpvr2_verify_device and the command writes of
\* raa_dmpvr2_send_cfg.
Tested == {"id", "rev", "send"}

\* C22: a transfer that executed fewer messages than asked for is a failure
\* to the caller that tests the helper's result: the run ends there with
\* the transport error.
C22_IncompleteIsFailure ==
  \A p \in Procs :
    (run[p].op = "write_cfg" /\ run[p].fails \cap Tested # {})
      => pc[p] = "done" /\ run[p].exit = "transport"

(***************************************************************************)
(* The bytes of a command write.                                           *)
(***************************************************************************)
\* C23: a command write is one transaction; for a 4-byte command its bytes
\* are the register and then the four payload bytes in the order of the
\* line, for a 2-byte command the register and then the word whose low
\* byte is payload byte 0.
C23_BytesOnTheBus ==
  \A p \in Procs :
    /\ run[p].sends = Len(run[p].wire)
    /\ \A k \in 1..Len(run[p].wire) :
         LET w == run[p].wire[k]
         IN /\ w.c.len = 4 => w.bytes = <<w.c.cmd>> \o w.c.data
            /\ w.c.len = 2 => w.bytes = <<w.c.cmd, w.c.data[1], w.c.data[2]>>

\* A run has written a 4-byte command whose last payload byte has its top
\* bit set and then a 2-byte command, both completely.
C23_BothWidthsWritten ==
  \E p \in Procs :
    /\ Len(run[p].wire) = 2
    /\ \A k \in 1..2 : run[p].wire[k].completed /\ run[p].wire[k].c.init
    /\ run[p].wire[1].c.len = 4 /\ run[p].wire[1].c.data[4] >= 128
    /\ run[p].wire[2].c.len = 2

(***************************************************************************)
(* Termination.                                                            *)
(***************************************************************************)
\* C24: every invocation of the program endpoint returns: a caller that
\* has entered raa_dmpvr2_write_cfg eventually leaves it with an outcome,
\* whatever the bus and the device do.
C24_RunReturns ==
  \A p \in Procs : (run[p].op = "write_cfg") ~> (pc[p] = "done")

\* A run has polled more than once without seeing a status and was ended
\* by the budget.
C24_PollEndedByBudget ==
  \E p \in Procs :
    /\ pc[p] = "done" /\ run[p].exit = "timeout"
    /\ run[p].polls >= 2 /\ run[p].data[0] = 0
    /\ run[p].elapsed > Budget

(***************************************************************************)
(* The bounds of the command list.                                         *)
(***************************************************************************)
\* The payload bytes an entry of the command list has room for
\* (isl68137.c:309, u8 data[4]).
PayloadRoom == 4

\* C25: the parser stores at most 4 payload bytes into one command entry
\* and fills no more entries than the count it allocated them from.
C25_ParserStaysInBounds ==
  \A p \in Procs :
    /\ run[p].stored <= PayloadRoom
    /\ run[p].fill <= run[p].cmd_cnt

(***************************************************************************)
(* The buffers of an invocation.                                           *)
(***************************************************************************)
\* C26: no buffer is released while it is not allocated (none twice, none
\* that was never allocated), and when the invocation has returned, on
\* whichever path, none of its buffers is still allocated.
C26_BuffersReleasedOnce ==
  \A p \in Procs :
    /\ run[p].bad = {}
    /\ pc[p] = "done" => run[p].live = {}
    /\ (run[p].op = "write_cfg" /\ pc[p] # "done") => {"cfg", "cbuf"} \subseteq run[p].live
    /\ (Parsed(p) /\ pc[p] # "done") => "cmds" \in run[p].live

\* A run has failed in the command loop of the parser, after the command
\* list was allocated and an entry filled, and has returned with nothing
\* left allocated.
C26_ParseFailureAfterAllocation ==
  \E p \in Procs :
    /\ pc[p] = "done" /\ run[p].exit = "format"
    /\ run[p].cmd_cnt = 2 /\ run[p].fill = 1
    /\ run[p].live = {} /\ run[p].bad = {}
====
